---- MODULE Spec2Model ----
(***************************************************************************)
(* A model of the Gitee backend for Perceval                               *)
(* (src/perceval/backends/gitee/gitee.py): the link-header pagination of   *)
(* GiteeClient.fetch_items, the class-level user / organization caches of  *)
(* GiteeClient, and the issue and pull-request drivers of Gitee with their *)
(* enrichment steps.                                                       *)
(*                                                                         *)
(* Python values are tagged records, so that values of different Python    *)
(* types can be compared: None, {} , a list, a parsed user, a text.        *)
(***************************************************************************)
EXTENDS Integers, Sequences, FiniteSets, TLC

VARIABLES
    \* ---- pagination harness (SpecPages): one fetch_items generator ----
    src,            \* the list resource served: [header, pages]
    gen,            \* the state of the fetch_items generator
    yielded,        \* the page payloads the generator has yielded, in order
    fetched,        \* the page numbers requested, in order
    outcome,        \* how the last next() on the generator ended
    \* ---- GiteeClient class attributes, shared by every client instance ----
    _users,         \* GiteeClient._users: login -> text of users/{login}
    _users_orgs,    \* GiteeClient._users_orgs: login -> text of users/{login}/orgs
    \* ---- identity-cache harness (SpecCache): sessions resolving users ----
    sessions,       \* session i is one Gitee backend with its own client: its exclude_user_data
    ureq,           \* ureq[i][l]: users/{l} requests issued by the client of session i
    oreq,           \* oreq[i][l]: users/{l}/orgs requests issued by the client of session i
    first,          \* first[i][l]: what session i's first completed resolution of l returned
    call,           \* the last __get_user call: who, what, requests issued, result
    clean,          \* no request of the harness has failed with a propagating error
    \* ---- one harvest run (Spec): Gitee.fetch(category, from_date, to_date, filter) ----
    fixture,        \* the family of upstream data the run is served from
    category,       \* the category argument of fetch()
    exclude_user_data, \* Gitee.exclude_user_data, set from filter_classified
    from_date,      \* the lower bound of the window
    to_date,        \* the upper bound of the window
    api_token,      \* whether the backend was given an API token
    pc,             \* where the driver (a generator) stands
    groups,         \* the fetch_items generator of the primary list (issues_groups / raw_pulls_groups)
    page,           \* the update times of the records of the page being iterated
    idx,            \* the index in `page` of the record the driver is at
    served,         \* the number of primary records on the pages before `page`
    emitted,        \* the upstream positions of the items yielded, in order
    cur,            \* the item being enriched, or the item just yielded
    sub,            \* the fetch_items generator of the sub-list being read
    todo,           \* the entries of the running inner loop still to handle
    acc,            \* the list the running inner loop is building
    last,           \* the failed request of the last step, if any: [ep, status]
    nusers,         \* requests of this run to users/{login} and users/{login}/orgs
    reqs,           \* the endpoints this run has sent a request to, in order
    err,            \* the exception that ended the run, if any
    \* ---- metadata harness (SpecMeta): the metadata functions on one item ----
    metaItem,       \* the item handed to the metadata functions
    meta,           \* the last metadata call: the function, and what it returned or raised
    \* ---- client harness (SpecClient): one GiteeClient and the requests it sends ----
    tokens,         \* the tokens argument of GiteeClient(...)
    client,         \* the client: whether it is constructed, and its access_token
    sent,           \* the requests the client has sent, in order
    listing         \* the running fetch_items call of the client, if any

pageVars == <<src, gen, yielded, fetched, outcome>>
classVars == <<_users, _users_orgs>>
cacheVars == <<sessions, ureq, oreq, first, call, clean>>
runVars == <<fixture, category, exclude_user_data, from_date, to_date, api_token, pc, groups,
          page, idx,
             served, emitted, cur, sub, todo, acc, last, nusers, reqs, err>>
metaVars == <<metaItem, meta>>
clientVars == <<tokens, client, sent, listing>>
vars == <<src, gen, yielded, fetched, outcome, _users, _users_orgs,
          sessions, ureq, oreq, first, call, clean,
          fixture, category, exclude_user_data, from_date, to_date, api_token, pc, groups,
          page, idx,
          served, emitted, cur, sub, todo, acc, last, nusers, reqs, err, metaItem, meta,
          tokens, client, sent, listing>>

----------------------------------------------------------------------------
\* Bounds of the model.

\* The longest chain of pages a list resource of the pagination harness has.
MaxPages == 3
\* Sessions (backend + client instances) created in one process.
MaxSessions == 2
\* __get_user calls made in the identity-cache harness.
MaxCalls == 3
\* Versions of a user's record the upstream may serve over time.
MaxVer == 2
\* Update times run over 0..MaxTime.
MaxTime == 2
\* Pages the primary list and every sub-list of a harvest run have at most.
MaxListPages == 2
\* Records on a page of the primary list, entries on a page of a sub-list.
MaxRecs == 2

----------------------------------------------------------------------------
\* Python values.

None == [t |-> "None"]
EmptyDict == [t |-> "dict"]
List(s) == [t |-> "list", items |-> s]
EmptyList == List(<<>>)
Absent == [t |-> "absent"]

\* A text holding a JSON document, and json.loads of it.
Text(json) == [t |-> "text", empty |-> FALSE, json |-> json]
JsonLoads(text) == text.json

\* The logins of the upstream users; "" is an empty login.
Logins == {"alice", "bob"}
NoLogin == ""

\* HTTP statuses the transport can hand back: success, not found, and one
\* status of the other failures.
Status == {200, 404, 500}

\* A response body is a text: the empty text '' or the text of a JSON list.
EmptyText == [t |-> "text", empty |-> TRUE, json |-> None]
JsonText(recs) == Text(List(recs))

\* A response header: absent, or a string (a sequence of characters).
NoHeader == [present |-> FALSE, value |-> <<>>]
Header(s) == [present |-> TRUE, value |-> s]

\* The total_page header values served: none, the empty string, one-digit
\* counts (right or mismatched), a two-digit count, a non-number.
TotalPageHeaders ==
    {NoHeader, Header(<<>>), Header(<<"1">>), Header(<<"3">>),
     Header(<<"1", "2">>), Header(<<"x">>)}

----------------------------------------------------------------------------
\* GiteeClient.fetch_items: the pagination generator.

Digits == <<"0", "1", "2", "3", "4", "5", "6", "7", "8", "9">>
IsDigit(c) == \E i \in 1..10 : Digits[i] = c
IntOfChar(c) == (CHOOSE i \in 1..10 : Digits[i] = c) - 1

\* total_page = response.headers.get('total_page')
\* if total_page: total_page = int(total_page[0])
\* The value kept is None, the (falsy) empty string, or the number read from
\* the first character; int() raises ValueError on any other character.
ParseTotalPage(h) ==
    IF ~h.present THEN [raised |-> FALSE, tp |-> [t |-> "None"]]
    ELSE IF h.value = <<>> THEN [raised |-> FALSE, tp |-> [t |-> "str"]]
    ELSE IF IsDigit(h.value[1])
         THEN [raised |-> FALSE, tp |-> [t |-> "int", n |-> IntOfChar(h.value[1])]]
         ELSE [raised |-> TRUE, tp |-> [t |-> "None"]]

\* "Page: %i/%i" % (page, total_page) raises TypeError unless total_page is
\* a number.
CanFormatPage(tp) == tp.t = "int"

\* `while items:` -- a text is truthy iff it is not empty.
Truthy(body) == ~body.empty

NewGen == [state |-> "new", next |-> FALSE, total_page |-> [t |-> "None"], page |-> 0]
Closed(g) == [g EXCEPT !.state = "closed"]

GenOut(g, kind, body, status, requested) ==
    [gen |-> g, kind |-> kind, body |-> body, status |-> status, requested |-> requested]

\* The first next() on the generator: lines 738-754.
GenFirst(g, resp) ==
    IF resp.status # 200
    THEN GenOut(Closed(g), "http_error", EmptyText, resp.status, TRUE)
    ELSE LET p == ParseTotalPage(resp.total_page)
             g1 == [g EXCEPT !.page = 1, !.next = resp.next, !.total_page = p.tp]
         IN IF p.raised
            THEN GenOut(Closed(g1), "value_error", EmptyText, 200, TRUE)
            ELSE IF Truthy(resp.body)
                 THEN GenOut([g1 EXCEPT !.state = "suspended"], "yield", resp.body, 200, TRUE)
                 ELSE GenOut(Closed(g1), "stop", EmptyText, 200, TRUE)

\* GenResume with the total_page count gating the loop: no further request
\* once `page` has reached it.
GenResumeGated(g, resp) ==
    IF ~g.next \/ (g.total_page.t = "int" /\ g.page >= g.total_page.n)
    THEN GenOut(Closed(g), "stop", EmptyText, 200, FALSE)
    ELSE IF resp.status # 200
    THEN GenOut(Closed(g), "http_error", EmptyText, resp.status, TRUE)
    ELSE LET g1 == [g EXCEPT !.page = g.page + 1, !.next = resp.next]
         IN IF ~CanFormatPage(g.total_page)
            THEN GenOut(Closed(g1), "type_error", EmptyText, 200, TRUE)
            ELSE IF Truthy(resp.body)
                 THEN GenOut([g1 EXCEPT !.state = "suspended"], "yield", resp.body, 200, TRUE)
                 ELSE GenOut(Closed(g1), "stop", EmptyText, 200, TRUE)

\* A later next(): the generator resumes after its yield, lines 755-761 and
\* the loop test of line 753.
GenResume(g, resp) ==
    IF ~g.next
    THEN GenOut(Closed(g), "stop", EmptyText, 200, FALSE)
    ELSE IF resp.status # 200
    THEN GenOut(Closed(g), "http_error", EmptyText, resp.status, TRUE)
    ELSE LET g1 == [g EXCEPT !.page = g.page + 1, !.next = resp.next]
         IN IF ~CanFormatPage(g.total_page)
            THEN GenOut(Closed(g1), "type_error", EmptyText, 200, TRUE)
            ELSE IF Truthy(resp.body)
                 THEN GenOut([g1 EXCEPT !.state = "suspended"], "yield", resp.body, 200, TRUE)
                 ELSE GenOut(Closed(g1), "stop", EmptyText, 200, TRUE)

\* One next() on a fetch_items generator that is not closed; resp is the
\* response the server gives if this step issues a request.
GenNext(g, resp) ==
    IF g.state = "new" THEN GenFirst(g, resp) ELSE GenResume(g, resp)

----------------------------------------------------------------------------
\* GiteeClient.user, GiteeClient.user_orgs and Gitee.__get_user.

Versions == 1..MaxVer

\* What the upstream answers to users/{login} and users/{login}/orgs if
\* asked now: a status for each, and the version of the record it serves.
UserResps == [us : Status, os : Status, ver : Versions]

UserDoc(login, ver) == [t |-> "user", login |-> login, ver |-> ver, organizations |-> Absent]
OrgsDoc(login, ver) == List(<<[t |-> "org", of |-> login, ver |-> ver]>>)

EmptyCache == [l \in {} |-> None]
Put(cache, k, v) == [l \in (DOMAIN cache) \cup {k} |-> IF l = k THEN v ELSE cache[l]]

\* user(login) without the look into the cache: every call asks the upstream
\* and stores what it answers.
ClientUserRefetch(users, login, resp) ==
    IF resp.us # 200
    THEN [raised |-> TRUE, status |-> resp.us, text |-> Text(None), users |-> users, req |-> 1]
    ELSE LET text == Text(UserDoc(login, resp.ver))
         IN [raised |-> FALSE, status |-> 200, text |-> text,
             users |-> Put(users, login, text), req |-> 1]

\* user(login) storing under the login before it looks at the status: a
\* failed request leaves an entry, the text of None.
ClientUserStoresFailure(users, login, resp) ==
    IF login \in DOMAIN users
    THEN [raised |-> FALSE, status |-> 200, text |-> users[login], users |-> users, req |-> 0]
    ELSE LET text == IF resp.us # 200 THEN Text(None) ELSE Text(UserDoc(login, resp.ver))
         IN [raised |-> resp.us # 200, status |-> resp.us, text |-> text,
             users |-> Put(users, login, text), req |-> 1]

\* GiteeClient.user(login): the cached text if there is one; else the
\* request, whose failure propagates, and the text stored under the login.
ClientUser(users, login, resp) ==
    IF login \in DOMAIN users
    THEN [raised |-> FALSE, status |-> 200, text |-> users[login], users |-> users, req |-> 0]
    ELSE IF resp.us # 200
    THEN [raised |-> TRUE, status |-> resp.us, text |-> Text(None), users |-> users, req |-> 1]
    ELSE LET text == Text(UserDoc(login, resp.ver))
         IN [raised |-> FALSE, status |-> 200, text |-> text,
             users |-> Put(users, login, text), req |-> 1]

\* user_orgs with every failed request raised again, the 404 included.
ClientUserOrgsStrict(orgs, login, resp) ==
    IF login \in DOMAIN orgs
    THEN [raised |-> FALSE, status |-> 200, text |-> orgs[login], orgs |-> orgs, req |-> 0]
    ELSE IF resp.os # 200
    THEN [raised |-> TRUE, status |-> resp.os, text |-> Text(None), orgs |-> orgs, req |-> 1]
    ELSE LET text == Text(OrgsDoc(login, resp.ver))
         IN [raised |-> FALSE, status |-> 200, text |-> text,
             orgs |-> Put(orgs, login, text), req |-> 1]

\* GiteeClient.user_orgs(login): the cached text if there is one; else the
\* request; a 404 becomes the text '[]', any other failure propagates; the
\* text is stored under the login.
ClientUserOrgs(orgs, login, resp) ==
    IF login \in DOMAIN orgs
    THEN [raised |-> FALSE, status |-> 200, text |-> orgs[login], orgs |-> orgs, req |-> 0]
    ELSE IF resp.os \notin {200, 404}
    THEN [raised |-> TRUE, status |-> resp.os, text |-> Text(None), orgs |-> orgs, req |-> 1]
    ELSE LET text == IF resp.os = 404 THEN Text(EmptyList)
                     ELSE Text(OrgsDoc(login, resp.ver))
         IN [raised |-> FALSE, status |-> resp.os, text |-> text,
             orgs |-> Put(orgs, login, text), req |-> 1]

\* `return None` of __get_user: no request, the caches as they were.
ReturnNone(users, orgs) ==
    [raised |-> FALSE, status |-> 200, ep |-> "none", value |-> None,
     users |-> users, orgs |-> orgs, nu |-> 0, no |-> 0]

\* Lines 477-483 of __get_user: the user, then its organizations, joined.
\* nu and no count the requests made to users/{login} and users/{login}/orgs.
FetchUser(login, users, orgs, resp) ==
    LET u == ClientUser(users, login, resp)
    IN IF u.raised
       THEN [raised |-> TRUE, status |-> u.status, ep |-> "users", value |-> None,
             users |-> u.users, orgs |-> orgs, nu |-> u.req, no |-> 0]
       ELSE LET o == ClientUserOrgs(orgs, login, resp)
            IN IF o.raised
               THEN [raised |-> TRUE, status |-> o.status, ep |-> "users_orgs",
                     value |-> None, users |-> u.users, orgs |-> o.orgs,
                     nu |-> u.req, no |-> o.req]
               ELSE [raised |-> FALSE, status |-> 200, ep |-> "none",
                     value |-> [JsonLoads(u.text) EXCEPT
                                   !.organizations = JsonLoads(o.text)],
                     users |-> u.users, orgs |-> o.orgs, nu |-> u.req, no |-> o.req]

\* __get_user without the test of exclude_user_data.
GetUserUnfiltered(login, exclude, users, orgs, resp) ==
    IF login = NoLogin THEN ReturnNone(users, orgs)
    ELSE FetchUser(login, users, orgs, resp)

\* Gitee.__get_user(login): None, with no request, for an empty login or
\* when user data is excluded; else the user with its organizations.
GetUser(login, exclude, users, orgs, resp) ==
    IF login = NoLogin \/ exclude THEN ReturnNone(users, orgs)
    ELSE FetchUser(login, users, orgs, resp)

----------------------------------------------------------------------------
\* The pagination harness: a consumer that drains one fetch_items generator
\* over a list resource of 1..MaxPages pages, page i linking to page i+1.

ListResources ==
    UNION {[header : TotalPageHeaders,
            pages : [1..n -> [status : Status, empty : BOOLEAN]]] : n \in 1..MaxPages}

\* The response to the request for page i of the resource.
Serve(r, i) ==
    [status |-> r.pages[i].status,
     body |-> IF r.pages[i].empty THEN EmptyText ELSE JsonText(<<i>>),
     next |-> i < Len(r.pages),
     total_page |-> r.header]

\* The class attributes when the module is loaded: lines 533-534.
ClassInit ==
    /\ _users = EmptyCache
    /\ _users_orgs = EmptyCache

NoCall == [n |-> 0, session |-> 0, login |-> NoLogin, exclude |-> FALSE, raised |-> FALSE,
           status |-> 200, ep |-> "none", value |-> None, nu |-> 0, no |-> 0,
           repeat |-> FALSE]

\* The harnesses at rest.
PagesIdle ==
    /\ src = [header |-> NoHeader, pages |-> <<>>]
    /\ gen = NewGen
    /\ yielded = <<>>
    /\ fetched = <<>>
    /\ outcome = "none"

CacheIdle ==
    /\ sessions = <<>>
    /\ ureq = <<>>
    /\ oreq = <<>>
    /\ first = <<>>
    /\ call = NoCall
    /\ clean = TRUE

NoItem == [t |-> "none"]
NoFail == [ep |-> "none", status |-> 200]
NoErr == [kind |-> "none", ep |-> "none", status |-> 200]

RunIdle ==
    /\ fixture = "none"
    /\ category = "none"
    /\ exclude_user_data = FALSE
    /\ from_date = 0
    /\ to_date = 0
    /\ api_token = FALSE
    /\ pc = "idle"
    /\ groups = NewGen
    /\ page = <<>>
    /\ idx = 0
    /\ served = 0
    /\ emitted = <<>>
    /\ cur = NoItem
    /\ sub = NewGen
    /\ todo = <<>>
    /\ acc = <<>>
    /\ last = NoFail
    /\ nusers = 0
    /\ reqs = <<>>
    /\ err = NoErr

\* An item is the set of its keys and the values of the keys the metadata
\* functions read.
NoMeta == [fn |-> "none", raised |-> FALSE, value |-> None]
MetaIdle ==
    /\ metaItem = [keys |-> {}, id |-> 0, updated_at |-> 0, fetched_on |-> 0]
    /\ meta = NoMeta

NoToken == "None"
NoClient == [built |-> FALSE, access_token |-> NoToken]
NoListing == [active |-> FALSE]

ClientIdle ==
    /\ tokens = <<>>
    /\ client = NoClient
    /\ sent = <<>>
    /\ listing = NoListing

PagesInit ==
    /\ MetaIdle
    /\ ClientIdle
    /\ src \in ListResources
    /\ gen = NewGen
    /\ yielded = <<>>
    /\ fetched = <<>>
    /\ outcome = "none"
    /\ ClassInit
    /\ CacheIdle
    /\ RunIdle

\* The consumer calls next() on the generator.
PagesNext ==
    /\ gen.state # "closed"
    /\ LET i == gen.page + 1
           resp == IF i <= Len(src.pages) THEN Serve(src, i) ELSE Serve(src, Len(src.pages))
           o == GenNext(gen, resp)
       IN /\ gen' = o.gen
          /\ outcome' = o.kind
          /\ yielded' = IF o.kind = "yield" THEN Append(yielded, o.body) ELSE yielded
          /\ fetched' = IF o.requested THEN Append(fetched, i) ELSE fetched
    /\ UNCHANGED <<src, classVars, cacheVars, runVars, metaVars, clientVars>>

SpecPages == PagesInit /\ [][PagesNext]_vars

\* The fixture of the pagination-exhaustion property: three pages, every
\* request answered 200 with a non-empty body, next links on pages 1 and 2.
ThreePageFixture ==
    /\ Len(src.pages) = 3
    /\ \A i \in 1..3 : src.pages[i].status = 200 /\ ~src.pages[i].empty

\* C3: over the three-page fixture the source yields exactly three page
\* payloads and ends without an error, whatever the total_page header is
\* (absent, mismatched, not a number).
C3_ThreePagesAnyHeader ==
    (ThreePageFixture /\ gen.state = "closed")
        => (outcome = "stop" /\ Len(yielded) = 3)

\* The last response the source received carried a next link / a body.
LastHadNext == gen.next
LastBodyEmpty == fetched # <<>> /\ src.pages[fetched[Len(fetched)]].empty

----------------------------------------------------------------------------
\* One harvest run: Gitee.fetch and the issue and pull-request drivers.

Times == 0..MaxTime

TARGET_ISSUE_FIELDS == <<"user", "assignee", "collaborators", "comments">>
TARGET_PULL_FIELDS == <<"user", "assignees", "number", "assignees", "testers">>
TargetFields == IF category = "issue" THEN TARGET_ISSUE_FIELDS ELSE TARGET_PULL_FIELDS

\* More Python values: a number, a string, a user reference {'login': l}.
PyInt(n) == [t |-> "int", n |-> n]
PyStr(x) == [t |-> "str", s |-> x]
Dict(login) == [t |-> "dict", login |-> login]
Unread == [t |-> "unread"]

\* A POSIX timestamp: what .timestamp() makes of the time v.
Timestamp(v) == [t |-> "timestamp", of |-> v]

\* `not v`
Falsy(v) == v \in {None, EmptyDict, EmptyList, PyInt(0), PyStr("")}

SeqsUpTo(S, n) == UNION {[1..k -> S] : k \in 0..n}

\* The upstream data of a run comes from one of these families.  In
\* "window" the primary list is general (pages of records of any update
\* time) and its records are plain: no related user, no comment, commit or
\* action log.  In each other family the primary list is one page with one
\* record inside the window, and one kind of related entity is general:
\* the user references of the record, its comments (with their authors),
\* its commits or its action logs (with the merger).
Fixtures == {"window", "users", "comments", "keyless", "commits", "logs", "repo"}
Rich(part) == fixture = part

\* The families with comments: in "comments" a comment without an author has
\* "user": null, in "keyless" it has no user key.
Commented == Rich("comments") \/ Rich("keyless")

\* The raw fields of a primary record, drawn when the driver first reads them.
RawValues(field) ==
    CASE field = "number" -> {PyInt(1)}
      [] field = "user" ->
            IF ~Rich("users") THEN {None} ELSE {None, Dict("alice"), Dict(NoLogin)}
      [] field = "assignee" ->
            IF ~Rich("users") THEN {None} ELSE {None, Dict("bob")}
      [] field = "collaborators" ->
            IF ~Rich("users") THEN {EmptyList} ELSE {EmptyList, List(<<Dict("alice"), Dict("bob")>>)}
      [] field = "comments" ->
            IF ~Commented THEN {PyInt(0)} ELSE {PyInt(0), PyInt(1)}
      [] field = "assignees" ->
            IF ~Rich("users") THEN {EmptyList} ELSE {EmptyList, List(<<Dict("bob")>>)}
      [] field = "testers" ->
            IF ~Rich("users") THEN {EmptyList} ELSE {EmptyList, List(<<Dict("alice")>>)}

RawFields == {"user", "assignee", "collaborators", "comments", "assignees", "testers", "number"}
DataKeys == {"user_data", "assignee_data", "assignees_data", "collaborators_data",
             "comments_data", "testers_data", "review_comments_data", "reviews_data",
             "merged_by", "merged_by_data", "commits_data", "releases", "fetched_on"}

\* __init_extra_issue_fields
InitExtraIssueFields ==
    [k \in DataKeys |->
        CASE k \in {"user_data", "assignee_data"} -> EmptyDict
          [] k \in {"assignees_data", "comments_data"} -> EmptyList
          [] OTHER -> Absent]

\* __init_extra_pull_fields
InitExtraPullFields ==
    [k \in DataKeys |->
        CASE k \in {"user_data", "review_comments_data"} -> EmptyDict
          [] k \in {"reviews_data", "merged_by_data", "commits_data"} -> EmptyList
          [] OTHER -> Absent]

NewItem(pos, t) ==
    [t |-> "item", pos |-> pos, updated_at |-> t, fi |-> 1,
     raw |-> [f \in RawFields |-> Unread],
     data |-> IF category = "issue" THEN InitExtraIssueFields ELSE InitExtraPullFields,
     tolerated |-> {}]

\* The issue test made as the pull request test is, on both bounds.
IssueStopsOutside(t) == t < from_date \/ t > to_date

\* The issue test with the bound itself excluded.
IssueStopsAtBound(t) == t >= to_date

\* str_to_datetime(issue['updated_at']) > to_date
IssueStops(t) == t > to_date

\* The pull-request test without its lower bound.
PullStopsAbove(t) == t > to_date

\* str_to_datetime(pull['updated_at']) < from_date or ... > to_date
PullStops(t) == t < from_date \/ t > to_date

\* The one response of a list with nothing in it: the text '[]', no next link.
NothingResp == [status |-> 200, body |-> JsonText(<<>>), next |-> FALSE, total_page |-> NoHeader]

\* The responses a list endpoint may give to the next request of generator
\* g: a failure, or a page with one of `bodies`; the chain of next links
\* ends within MaxListPages pages; total_page comes with the first page.
ListResps(g, bodies) ==
    IF g.state # "new" /\ ~g.next
    THEN {NothingResp}
    ELSE {[status |-> st, body |-> EmptyText, next |-> FALSE, total_page |-> NoHeader] :
              st \in Status \ {200}}
         \cup [status : {200}, body : bodies,
               next : IF g.page + 1 < MaxListPages THEN BOOLEAN ELSE {FALSE},
               total_page : IF g.state = "new" THEN {NoHeader, Header(<<"2">>)}
                            ELSE {NoHeader}]

\* The responses of the primary list.
PrimaryResps(g) ==
    IF Rich("window")
    THEN ListResps(g, {EmptyText} \cup {JsonText(r) : r \in SeqsUpTo(Times, MaxRecs)})
    ELSE {[status |-> st, body |-> JsonText(<<from_date>>), next |-> FALSE,
           total_page |-> NoHeader] : st \in Status}

\* The responses of the sub-lists: comments (each a user reference, None or
\* missing), commits (each a hash), action logs.
CommentUsers == IF Rich("keyless") THEN {Absent, Dict("alice")} ELSE {None, Dict("alice")}
CommentResps(g) ==
    IF ~Commented THEN {NothingResp}
    ELSE ListResps(g, {EmptyText} \cup {JsonText(r) : r \in SeqsUpTo(CommentUsers, MaxRecs)})

CommitResps(g) ==
    IF ~Rich("commits") THEN {NothingResp}
    ELSE ListResps(g, {EmptyText} \cup
                      {JsonText([i \in 1..k |-> PyStr("sha")]) : k \in 0..MaxRecs})

LogEntries == [action_type : {"merged_pr", "other"}, login : Logins]
LogResps(g) ==
    IF ~Rich("logs") THEN {NothingResp}
    ELSE ListResps(g, {EmptyText} \cup {JsonText(r) : r \in SeqsUpTo(LogEntries, MaxRecs)})

\* What the upstream answers to the user endpoints during a run.
RunUserResps == {r \in UserResps : r.ver = 1}

PrimaryEndpoint == IF category = "issue" THEN "issues" ELSE "pulls"

argVars == <<fixture, category, exclude_user_data, from_date, to_date, api_token>>
otherVars == <<pageVars, cacheVars, argVars, metaVars, clientVars>>

\* A category the backend does not have, listed by mistake.
CategoriesWithCommit == <<"issue", "pull_request", "repository", "commit">>

\* Gitee.CATEGORIES
CATEGORIES == <<"issue", "pull_request", "repository">>

\* The categories a caller may ask for: the three of the backend, and one it
\* does not have.
Requested == {"issue", "pull_request", "repository", "commit"}

\* Backend.fetch of the perceval library checks the category against the
\* CATEGORIES of the backend class before it does anything else.
ValidCategory(c) == \E i \in DOMAIN CATEGORIES : CATEGORIES[i] = c

\* Gitee.fetch_items: the driver a category is handed to, as the place its
\* generator starts at.
Dispatch(c) ==
    IF c = "issue" THEN "page"
    ELSE IF c = "pull_request" THEN "page"
    ELSE "repo"

\* _refresh_access_token with the refresh left out.
RefreshSkipped(token, requests, post) == requests

\* GiteeClient.__init__ ends with _refresh_access_token(), which posts to the
\* refresh URL when an access token is set; `post` is that request, added to
\* the requests sent so far.
RefreshAccessToken(token, requests, post) ==
    IF token THEN Append(requests, post) ELSE requests

\* fetch(category, from_date, to_date, filter_classified) on a fresh process.
RunStart ==
    /\ MetaIdle
    /\ ClientIdle
    /\ PagesIdle
    /\ CacheIdle
    /\ ClassInit
    /\ category \in Requested
    /\ exclude_user_data \in BOOLEAN
    /\ from_date \in Times
    /\ to_date \in Times
    /\ from_date <= to_date
    /\ api_token \in BOOLEAN
    /\ pc = "fetch"
    /\ groups = NewGen
    /\ page = <<>>
    /\ idx = 0
    /\ served = 0
    /\ emitted = <<>>
    /\ cur = NoItem
    /\ sub = NewGen
    /\ todo = <<>>
    /\ acc = <<>>
    /\ last = NoFail
    /\ nusers = 0
    /\ reqs = <<>>
    /\ err = NoErr

\* A run over one family of upstream data.  The repository family serves the
\* runs of the categories other than issue and pull_request, with or without
\* an API token; the window family has records without users, comments or
\* action logs, so that excluding user data changes nothing there, and it is
\* the one family with windows other than the widest.
Init ==
    /\ fixture \in Fixtures
    /\ RunStart
    /\ Rich("repo") <=> category \notin {"issue", "pull_request"}
    /\ Rich("window") \/ (from_date = 0 /\ to_date = MaxTime)
    /\ Rich("window") => ~exclude_user_data
    /\ api_token => Rich("repo")

\* The run ends with an exception raised at endpoint ep.
Fail(kind, ep, status) ==
    /\ pc' = "failed"
    /\ err' = [kind |-> kind, ep |-> ep, status |-> status]
    /\ last' = IF kind = "http" THEN [ep |-> ep, status |-> status] ELSE NoFail

\* The exception a closed generator ended with.
GenFail(o, ep) ==
    IF o.kind = "http_error" THEN Fail("http", ep, o.status)
    ELSE IF o.kind = "value_error" THEN Fail("ValueError", ep, 200)
    ELSE Fail("TypeError", ep, 200)

\* Gitee.fetch hands the category to Backend.fetch, which rejects a category
\* the backend does not list with a BackendError; otherwise it builds the
\* client (_init_client) and starts the generator of fetch_items.
Fetch ==
    /\ pc = "fetch"
    /\ IF ValidCategory(category)
       THEN /\ reqs' = RefreshAccessToken(api_token, reqs, "refresh")
            /\ pc' = Dispatch(category)
            /\ UNCHANGED <<err, last>>
       ELSE /\ Fail("BackendError", "none", 200)
            /\ UNCHANGED reqs
    /\ UNCHANGED <<groups, page, idx, served, emitted, cur, sub, todo, acc, nusers,
                   classVars, otherVars>>

\* The repository document of the upstream, json.loads(raw_repo): a dict with
\* the keys id and forks_count.
RepoItem ==
    [t |-> "repo", keys |-> {"id", "forks_count"}, pos |-> 1, updated_at |-> 0, fi |-> 1,
     raw |-> [f \in RawFields |-> Unread],
     data |-> [k \in DataKeys |-> Absent],
     tolerated |-> {}]

\* The releases the upstream may list.
ReleaseLists == {List([i \in 1..n |-> PyStr("release")]) : n \in 0..MaxRecs}

\* The repository with its releases attached, and no time of fetch.
WithReleasesOnly(repo, releases, now) ==
    [repo EXCEPT !.keys = @ \cup {"releases"},
                 !.data["releases"] = releases]

\* repo['releases'] = repo_releases; repo['fetched_on'] = fetched_on.timestamp()
WithReleases(repo, releases, now) ==
    [repo EXCEPT !.keys = @ \cup {"releases", "fetched_on"},
                 !.data["releases"] = releases,
                 !.data["fetched_on"] = Timestamp(now)]

\* __fetch_repo_info: raw_repo = self.client.repo(); repo = json.loads(raw_repo)
RepoStep ==
    /\ pc = "repo"
    /\ reqs' = Append(reqs, "repo")
    /\ \E status \in Status :
         IF status = 200
         THEN /\ cur' = RepoItem
              /\ pc' = "releases"
              /\ last' = NoFail
              /\ UNCHANGED err
         ELSE /\ Fail("http", "repo", status)
              /\ UNCHANGED cur
    /\ UNCHANGED <<groups, page, idx, served, emitted, sub, todo, acc, nusers,
                   classVars, otherVars>>

\* __fetch_repo_info: the releases are read and attached, the time of the
\* fetch is stamped, and the repository is yielded.
ReleasesStep ==
    /\ pc = "releases"
    /\ reqs' = Append(reqs, "releases")
    /\ \E status \in Status, releases \in ReleaseLists, now \in Times :
         IF status = 200
         THEN /\ cur' = WithReleases(cur, releases, now)
              /\ emitted' = Append(emitted, cur.pos)
              /\ pc' = "yielded"
              /\ last' = NoFail
              /\ UNCHANGED err
         ELSE /\ Fail("http", "releases", status)
              /\ UNCHANGED <<cur, emitted>>
    /\ UNCHANGED <<groups, page, idx, served, sub, todo, acc, nusers,
                   classVars, otherVars>>

\* `for raw_issues in issues_groups` / `for raw_pulls in raw_pulls_groups`:
\* next() on the generator of the primary list.
FetchPage ==
    /\ pc = "page"
    /\ \E resp \in PrimaryResps(groups) :
         LET o == GenNext(groups, resp)
         IN /\ groups' = o.gen
            /\ reqs' = IF o.requested THEN Append(reqs, PrimaryEndpoint) ELSE reqs
            /\ IF o.kind = "yield"
               THEN /\ page' = JsonLoads(o.body).items
                    /\ idx' = 1
                    /\ served' = served + Len(page)
                    /\ pc' = "record"
                    /\ last' = NoFail
                    /\ UNCHANGED err
               ELSE IF o.kind = "stop"
               THEN /\ pc' = "done"
                    /\ last' = NoFail
                    /\ UNCHANGED <<page, idx, served, err>>
               ELSE /\ GenFail(o, PrimaryEndpoint)
                    /\ UNCHANGED <<page, idx, served>>
    /\ UNCHANGED <<emitted, cur, sub, todo, acc, nusers, classVars, otherVars>>

\* The loop over the records that, at the end of a page, waits for more
\* records of the page and never asks the generator for the next page.
NextRecordStalls ==
    /\ pc = "record"
    /\ IF idx > Len(page)
       THEN pc' = "record" /\ UNCHANGED cur
       ELSE IF (IF category = "issue" THEN IssueStops(page[idx]) ELSE PullStops(page[idx]))
       THEN pc' = "done" /\ UNCHANGED cur
       ELSE /\ pc' = "field"
            /\ cur' = NewItem(served + idx, page[idx])
    /\ last' = NoFail
    /\ UNCHANGED <<groups, page, idx, served, emitted, sub, todo, acc, nusers, reqs, err,
                   classVars, otherVars>>

\* The loop over the records with `continue` in place of `return`: a record
\* that fails the window test is passed over.
NextRecordSkipping ==
    /\ pc = "record"
    /\ IF idx > Len(page)
       THEN pc' = "page" /\ UNCHANGED <<cur, idx>>
       ELSE IF (IF category = "issue" THEN IssueStops(page[idx]) ELSE PullStops(page[idx]))
       THEN pc' = "record" /\ idx' = idx + 1 /\ UNCHANGED cur
       ELSE /\ pc' = "field"
            /\ cur' = NewItem(served + idx, page[idx])
            /\ UNCHANGED idx
    /\ last' = NoFail
    /\ UNCHANGED <<groups, page, served, emitted, sub, todo, acc, nusers, reqs, err,
                   classVars, otherVars>>

\* `for issue in issues` / `for pull in pulls`: the window test, then the
\* extra fields.
NextRecord ==
    /\ pc = "record"
    /\ IF idx > Len(page)
       THEN pc' = "page" /\ UNCHANGED cur
       ELSE IF (IF category = "issue" THEN IssueStops(page[idx]) ELSE PullStops(page[idx]))
       THEN pc' = "done" /\ UNCHANGED cur
       ELSE /\ pc' = "field"
            /\ cur' = NewItem(served + idx, page[idx])
    /\ last' = NoFail
    /\ UNCHANGED <<groups, page, idx, served, emitted, sub, todo, acc, nusers, reqs, err,
                   classVars, otherVars>>

\* `yield issue` / `yield pull`
Yield ==
    /\ pc = "field"
    /\ cur.fi > Len(TargetFields)
    /\ emitted' = Append(emitted, cur.pos)
    /\ pc' = "yielded"
    /\ last' = NoFail
    /\ UNCHANGED <<groups, page, idx, served, cur, sub, todo, acc, nusers, reqs, err,
                   classVars, otherVars>>

\* The caller asks for the next item: the driver resumes after its yield.
Resume ==
    /\ pc = "yielded"
    /\ idx' = IF cur.t = "repo" THEN idx ELSE idx + 1
    /\ cur' = NoItem
    /\ pc' = IF cur.t = "repo" THEN "done" ELSE "record"
    /\ last' = NoFail
    /\ UNCHANGED <<groups, page, served, emitted, sub, todo, acc, nusers, reqs, err,
                   classVars, otherVars>>

\* The field of TARGET_*_FIELDS the enrichment loop is at.
Field == TargetFields[cur.fi]
AtField(fs) == pc = "field" /\ cur.fi <= Len(TargetFields) /\ Field \in fs

\* field + '_data'
DataKey(field) ==
    CASE field = "user" -> "user_data"
      [] field = "assignee" -> "assignee_data"
      [] field = "collaborators" -> "collaborators_data"
      [] field = "comments" -> "comments_data"
      [] field = "assignees" -> "assignees_data"
      [] field = "testers" -> "testers_data"

RawChoices(field) ==
    IF cur.raw[field] = Unread THEN RawValues(field) ELSE {cur.raw[field]}

ReadRaw(item, field, raw) == [item EXCEPT !.raw[field] = raw]
SetData(item, key, v) == [item EXCEPT !.data[key] = v]
Advance(item) == [item EXCEPT !.fi = @ + 1]
Tolerate(item, ep) == [item EXCEPT !.tolerated = @ \cup {ep}]

\* __get_user in a run whose fetch() did not store filter_classified.
UserLookupFlagUnset(login, resp) == GetUser(login, FALSE, _users, _users_orgs, resp)

\* self.__get_user(login) in this run, and its effect on the caches.
UserLookup(login, resp) == GetUser(login, exclude_user_data, _users, _users_orgs, resp)
Looked(r) ==
    /\ _users' = r.users
    /\ _users_orgs' = r.orgs
    /\ nusers' = nusers + r.nu + r.no
    /\ reqs' = reqs \o (IF r.nu = 1 THEN <<"users">> ELSE <<>>)
                    \o (IF r.no = 1 THEN <<"users_orgs">> ELSE <<>>)
NoLookup == UNCHANGED <<_users, _users_orgs, nusers>>

\* A step without a request; a next() on a list of endpoint ep, which sends
\* a request unless the list has no next link.
NoRequest == NoLookup /\ UNCHANGED reqs
Asked(o, ep) == NoLookup /\ reqs' = IF o.requested THEN Append(reqs, ep) ELSE reqs

\* `if not issue[field]: continue`, else a single user resolved:
\* issue user (line 304), issue assignee (306, 485-489), pull user (331).
FieldUser ==
    /\ AtField(IF category = "issue" THEN {"user", "assignee"} ELSE {"user"})
    /\ \E raw \in RawChoices(Field), resp \in RunUserResps :
         IF Falsy(raw)
         THEN /\ cur' = Advance(ReadRaw(cur, Field, raw))
              /\ NoRequest
              /\ last' = NoFail
              /\ UNCHANGED <<pc, err>>
         ELSE LET r == UserLookup(raw.login, resp)
              IN /\ Looked(r)
                 /\ IF r.raised
                    THEN /\ Fail("http", r.ep, r.status)
                         /\ cur' = ReadRaw(cur, Field, raw)
                    ELSE /\ cur' = Advance(SetData(ReadRaw(cur, Field, raw), DataKey(Field), r.value))
                         /\ last' = NoFail
                         /\ UNCHANGED <<pc, err>>
    /\ UNCHANGED <<groups, page, idx, served, emitted, sub, todo, acc, otherVars>>

\* `if not issue[field]: continue`, else a list of users is to be resolved:
\* issue collaborators (308, 376-383), pull assignees and testers (337, 464-469).
FieldUsers ==
    /\ AtField(IF category = "issue" THEN {"collaborators"} ELSE {"assignees", "testers"})
    /\ \E raw \in RawChoices(Field) :
         IF Falsy(raw)
         THEN /\ cur' = Advance(ReadRaw(cur, Field, raw))
              /\ UNCHANGED <<pc, todo, acc>>
         ELSE /\ cur' = ReadRaw(cur, Field, raw)
              /\ todo' = raw.items
              /\ acc' = <<>>
              /\ pc' = "users"
    /\ last' = NoFail
    /\ NoRequest
    /\ UNCHANGED <<groups, page, idx, served, emitted, sub, err, otherVars>>

\* One turn of the loop of __get_users / __get_issue_collaborators, or its end.
UsersLoop ==
    /\ pc = "users"
    /\ IF todo = <<>>
       THEN /\ cur' = Advance(SetData(cur, DataKey(Field), List(acc)))
            /\ pc' = "field"
            /\ last' = NoFail
            /\ NoRequest
            /\ UNCHANGED <<todo, acc, err>>
       ELSE \E resp \in RunUserResps :
              LET r == UserLookup(Head(todo).login, resp)
              IN /\ Looked(r)
                 /\ IF r.raised
                    THEN /\ Fail("http", r.ep, r.status)
                         /\ UNCHANGED <<todo, acc, cur>>
                    ELSE /\ acc' = Append(acc, r.value)
                         /\ todo' = Tail(todo)
                         /\ last' = NoFail
                         /\ UNCHANGED <<pc, err, cur>>
    /\ UNCHANGED <<groups, page, idx, served, emitted, sub, otherVars>>

\* `if not issue['comments']: continue`, else __get_issue_comments starts.
FieldComments ==
    /\ category = "issue"
    /\ AtField({"comments"})
    /\ \E raw \in RawChoices(Field) :
         IF Falsy(raw)
         THEN /\ cur' = Advance(ReadRaw(cur, Field, raw))
              /\ UNCHANGED <<pc, sub, todo, acc>>
         ELSE /\ cur' = ReadRaw(cur, Field, raw)
              /\ sub' = NewGen
              /\ todo' = <<>>
              /\ acc' = <<>>
              /\ pc' = "comments"
    /\ last' = NoFail
    /\ NoRequest
    /\ UNCHANGED <<groups, page, idx, served, emitted, err, otherVars>>

\* A comment with its user resolved.
Comment(user, user_data) == [t |-> "comment", user |-> user, user_data |-> user_data]

\* __get_issue_comments: the next page of comments, or the next comment of
\* the page: comment['user']['login'] raises for a comment without a user.
CommentsStep ==
    /\ pc = "comments"
    /\ IF todo # <<>>
       THEN /\ IF Head(todo) \in {None, Absent}
               THEN /\ Fail(IF Head(todo) = None THEN "TypeError" ELSE "KeyError", "none", 200)
                    /\ NoRequest
                    /\ UNCHANGED <<todo, acc>>
               ELSE \E resp \in RunUserResps :
                      LET r == UserLookup(Head(todo).login, resp)
                      IN /\ Looked(r)
                         /\ IF r.raised
                            THEN /\ Fail("http", r.ep, r.status)
                                 /\ UNCHANGED <<todo, acc>>
                            ELSE /\ acc' = Append(acc, Comment(Head(todo), r.value))
                                 /\ todo' = Tail(todo)
                                 /\ last' = NoFail
                                 /\ UNCHANGED <<pc, err>>
            /\ UNCHANGED <<sub, cur>>
       ELSE \E resp \in CommentResps(sub) :
              LET o == GenNext(sub, resp)
              IN /\ sub' = o.gen
                 /\ Asked(o, "issue_comments")
                 /\ IF o.kind = "yield"
                    THEN /\ todo' = JsonLoads(o.body).items
                         /\ last' = NoFail
                         /\ UNCHANGED <<pc, err, acc, cur>>
                    ELSE IF o.kind = "stop"
                    THEN /\ cur' = Advance(SetData(cur, "comments_data", List(acc)))
                         /\ pc' = "field"
                         /\ last' = NoFail
                         /\ UNCHANGED <<err, todo, acc>>
                    ELSE /\ GenFail(o, "issue_comments")
                         /\ UNCHANGED <<todo, acc, cur>>
    /\ UNCHANGED <<groups, page, idx, served, emitted, otherVars>>

\* field == 'number': the compound step of a pull request starts with
\* __get_pull_review_comments.
FieldNumber ==
    /\ category = "pull_request"
    /\ AtField({"number"})
    /\ \E raw \in RawChoices(Field) :
         IF Falsy(raw)
         THEN /\ cur' = Advance(ReadRaw(cur, Field, raw))
              /\ UNCHANGED <<pc, sub, todo, acc>>
         ELSE /\ cur' = ReadRaw(cur, Field, raw)
              /\ sub' = NewGen
              /\ todo' = <<>>
              /\ acc' = <<>>
              /\ pc' = "review"
    /\ last' = NoFail
    /\ NoRequest
    /\ UNCHANGED <<groups, page, idx, served, emitted, err, otherVars>>

\* `if error.response.status_code == 404` of __get_pull_review_comments.
ReviewTolerates(status) == status = 404

\* __get_pull_review_comments returns `comments`; __get_pull_commits is next.
ReviewReturns(item) ==
    /\ cur' = SetData(item, "review_comments_data", List(acc))
    /\ pc' = "commits"
    /\ sub' = NewGen
    /\ todo' = <<>>
    /\ acc' = <<>>
    /\ UNCHANGED err

\* __get_pull_review_comments: the next page of review comments, or the next
\* comment of the page.  The whole loop, user lookups included, runs inside
\* `try`: an HTTPError with status 404 ends it with the comments gathered so
\* far, any other one is raised again.
ReviewStep ==
    /\ pc = "review"
    /\ IF todo # <<>>
       THEN IF Falsy(IF Head(todo) = Absent THEN None ELSE Head(todo))
            THEN /\ acc' = Append(acc, Comment(Head(todo), None))
                 /\ todo' = Tail(todo)
                 /\ last' = NoFail
                 /\ NoRequest
                 /\ UNCHANGED <<pc, err, cur, sub>>
            ELSE \E resp \in RunUserResps :
                   LET r == UserLookup(Head(todo).login, resp)
                   IN /\ Looked(r)
                      /\ IF r.raised /\ ReviewTolerates(r.status)
                         THEN /\ ReviewReturns(Tolerate(cur, r.ep))
                              /\ last' = [ep |-> r.ep, status |-> r.status]
                         ELSE IF r.raised
                         THEN /\ Fail("http", r.ep, r.status)
                              /\ UNCHANGED <<todo, acc, cur, sub>>
                         ELSE /\ acc' = Append(acc, Comment(Head(todo), r.value))
                              /\ todo' = Tail(todo)
                              /\ last' = NoFail
                              /\ UNCHANGED <<pc, err, cur, sub>>
       ELSE \E resp \in CommentResps(sub) :
              LET o == GenNext(sub, resp)
              IN /\ Asked(o, "pull_comments")
                 /\ IF o.kind = "yield"
                    THEN /\ todo' = JsonLoads(o.body).items
                         /\ sub' = o.gen
                         /\ last' = NoFail
                         /\ UNCHANGED <<pc, err, acc, cur>>
                    ELSE IF o.kind = "stop"
                    THEN /\ ReviewReturns(cur)
                         /\ last' = NoFail
                    ELSE IF o.kind = "http_error" /\ ReviewTolerates(o.status)
                    THEN /\ ReviewReturns(Tolerate(cur, "pull_comments"))
                         /\ last' = [ep |-> "pull_comments", status |-> o.status]
                    ELSE /\ GenFail(o, "pull_comments")
                         /\ sub' = o.gen
                         /\ UNCHANGED <<todo, acc, cur>>
    /\ UNCHANGED <<groups, page, idx, served, emitted, otherVars>>

\* __get_pull_commits with every HTTPError raised again.
CommitsToleratesNothing(status) == FALSE

\* `if error.response.status_code == 404` of __get_pull_commits.
CommitsTolerates(status) == status = 404

\* __get_pull_commits returns `hashes`; __get_pull_merged_by is next, with
\* result = None.
CommitsReturns(item) ==
    /\ cur' = SetData(item, "commits_data", List(acc))
    /\ pc' = "logs"
    /\ sub' = NewGen
    /\ acc' = <<None>>
    /\ UNCHANGED err

\* __get_pull_commits: the next page of commits; a 404 on any page ends the
\* loop with the hashes gathered so far, any other HTTPError is raised again.
CommitsStep ==
    /\ pc = "commits"
    /\ \E resp \in CommitResps(sub) :
         LET o == GenNext(sub, resp)
         IN /\ Asked(o, "pull_commits")
            /\ IF o.kind = "yield"
               THEN /\ acc' = acc \o JsonLoads(o.body).items
                    /\ sub' = o.gen
                    /\ last' = NoFail
                    /\ UNCHANGED <<pc, err, cur>>
               ELSE IF o.kind = "stop"
               THEN /\ CommitsReturns(cur)
                    /\ last' = NoFail
               ELSE IF o.kind = "http_error" /\ CommitsTolerates(o.status)
               THEN /\ CommitsReturns(Tolerate(cur, "pull_commits"))
                    /\ last' = [ep |-> "pull_commits", status |-> o.status]
               ELSE /\ GenFail(o, "pull_commits")
                    /\ sub' = o.gen
                    /\ UNCHANGED <<acc, cur>>
    /\ UNCHANGED <<groups, page, idx, served, emitted, todo, otherVars>>

Min(S) == CHOOSE m \in S : \A x \in S : m <= x

\* The scan of a page that keeps a result found on an earlier page.
ScanPageKeepFirst(result, entries) ==
    LET merged == {i \in 1..Len(entries) : entries[i].action_type = "merged_pr"}
    IN IF merged = {} \/ result # None THEN result ELSE PyStr(entries[Min(merged)].login)

\* The inner loop of __get_pull_merged_by over one page: the first merged_pr
\* entry of the page replaces the result, a page without one leaves it.
ScanPage(result, entries) ==
    LET merged == {i \in 1..Len(entries) : entries[i].action_type = "merged_pr"}
    IN IF merged = {} THEN result ELSE PyStr(entries[Min(merged)].login)

Last(s) == s[Len(s)]

\* __get_pull_merged_by: the next page of action logs; at the end
\* pull['merged_by'] = result and, if it is truthy, the merger is resolved.
\* acc holds the values `result` has had, the current one last; todo holds
\* the page scanned last.
LogsStep ==
    /\ pc = "logs"
    /\ \E resp \in LogResps(sub) :
         LET o == GenNext(sub, resp)
         IN /\ sub' = o.gen
            /\ Asked(o, "operate_logs")
            /\ IF o.kind = "yield"
               THEN /\ acc' = Append(acc, ScanPage(Last(acc), JsonLoads(o.body).items))
                    /\ todo' = JsonLoads(o.body).items
                    /\ last' = NoFail
                    /\ UNCHANGED <<pc, err, cur>>
               ELSE IF o.kind = "stop"
               THEN /\ IF Falsy(Last(acc))
                       THEN /\ cur' = Advance(SetData(cur, "merged_by", Last(acc)))
                            /\ pc' = "field"
                       ELSE /\ cur' = SetData(cur, "merged_by", Last(acc))
                            /\ pc' = "merged_by"
                    /\ last' = NoFail
                    /\ UNCHANGED <<err, acc, todo>>
               ELSE /\ GenFail(o, "operate_logs")
                    /\ UNCHANGED <<acc, todo, cur>>
    /\ UNCHANGED <<groups, page, idx, served, emitted, otherVars>>

\* pull['merged_by_data'] = self.__get_user(pull['merged_by'])
MergedBy ==
    /\ pc = "merged_by"
    /\ \E resp \in RunUserResps :
         LET r == UserLookup(cur.data["merged_by"].s, resp)
         IN /\ Looked(r)
            /\ IF r.raised
               THEN /\ Fail("http", r.ep, r.status)
                    /\ UNCHANGED cur
               ELSE /\ cur' = Advance(SetData(cur, "merged_by_data", r.value))
                    /\ pc' = "field"
                    /\ last' = NoFail
                    /\ UNCHANGED err
    /\ UNCHANGED <<groups, page, idx, served, emitted, sub, todo, acc, otherVars>>

Next ==
    \/ Fetch
    \/ RepoStep
    \/ ReleasesStep
    \/ FetchPage
    \/ NextRecord
    \/ FieldUser
    \/ FieldUsers
    \/ UsersLoop
    \/ FieldComments
    \/ CommentsStep
    \/ FieldNumber
    \/ ReviewStep
    \/ CommitsStep
    \/ LogsStep
    \/ MergedBy
    \/ Yield
    \/ Resume

Spec == Init /\ [][Next]_vars

\* The runs followed to their end: user data included, so that every lookup
\* is made, and, over the general primary list, the window [1, 1], which has
\* update times below it, inside it and above it.
LiveInit ==
    /\ Init
    /\ ~exclude_user_data
    /\ Rich("window") => (from_date = 1 /\ to_date = 1)

\* A run whose caller drains the generator: the interpreter runs the one
\* thread of the program, every request returns (with a response or an
\* error), and the caller asks for the next item after each one it got.
SpecLive == LiveInit /\ [][Next]_vars /\ WF_vars(Next)

----------------------------------------------------------------------------
\* The time window of a run.

\* The positions 1..n of the primary records, in upstream order.
Positions(n) == [i \in 1..n |-> i]

\* The run ended at a record of the current page / at the end of the list.
StoppedAtRecord == pc = "done" /\ idx \in 1..Len(page)
ListExhausted == pc = "done" /\ idx \notin 1..Len(page) /\ ~groups.next

\* C1: in an issue run the items emitted are the first records of the
\* upstream list, in order and across pages; each is emitted with an update
\* time not above to_date; if the run ends at a record, that record is above
\* to_date, no record before it on its page is, and every record before it
\* was emitted; if it ends at the end of the list, every record was emitted.
C1_IssuePrefix ==
    category = "issue" =>
        /\ emitted = Positions(Len(emitted))
        /\ Len(emitted) <= served + Len(page)
        /\ pc = "yielded" => cur.pos = Len(emitted) /\ cur.updated_at <= to_date
        /\ StoppedAtRecord =>
              /\ page[idx] > to_date
              /\ \A j \in 1..(idx - 1) : page[j] <= to_date
              /\ Len(emitted) = served + idx - 1
        /\ ListExhausted => Len(emitted) = served + Len(page)

\* An issue run that emitted items of two pages and ended at a record of the
\* second page, or emitted a whole page and the first record of the second.
C1_Witness ==
    /\ category = "issue"
    /\ StoppedAtRecord
    /\ served >= 1
    /\ Len(emitted) >= 2

\* C2: in a pull-request run every item is emitted with an update time
\* inside [from_date, to_date]; the items emitted are the first records of
\* the upstream list; a run that ends at a record ends at the first record
\* outside the window, with every record before it emitted and none after it,
\* whatever the update times of the records after it.
C2_PullWindow ==
    category = "pull_request" =>
        /\ emitted = Positions(Len(emitted))
        /\ pc = "yielded" =>
              /\ cur.pos = Len(emitted)
              /\ from_date <= cur.updated_at
              /\ cur.updated_at <= to_date
        /\ StoppedAtRecord =>
              /\ page[idx] < from_date \/ page[idx] > to_date
              /\ \A j \in 1..(idx - 1) : from_date <= page[j] /\ page[j] <= to_date
              /\ Len(emitted) = served + idx - 1

\* A pull-request run that ended at a record below from_date while a later
\* record of the same page lies inside the window.
C2_Witness ==
    /\ category = "pull_request"
    /\ StoppedAtRecord
    /\ page[idx] < from_date
    /\ idx < Len(page)
    /\ from_date <= page[idx + 1]
    /\ page[idx + 1] <= to_date
    /\ Len(emitted) >= 1

----------------------------------------------------------------------------
\* The identity-cache harness: sessions of one process, each a Gitee backend
\* with the GiteeClient its fetch() creates, resolving logins in any order.

CacheInit ==
    /\ ClientIdle
    /\ PagesIdle
    /\ ClassInit
    /\ CacheIdle
    /\ RunIdle
    /\ MetaIdle

\* Gitee.fetch(filter_classified = x): sets exclude_user_data and has
\* Backend.fetch create the session's client with _init_client.
NewSession(x) ==
    /\ Len(sessions) < MaxSessions
    /\ sessions' = Append(sessions, x)
    /\ ureq' = Append(ureq, [l \in Logins |-> 0])
    /\ oreq' = Append(oreq, [l \in Logins |-> 0])
    /\ first' = Append(first, [l \in Logins |-> Absent])
    /\ UNCHANGED <<call, clean, classVars, pageVars, runVars, metaVars, clientVars>>

\* Session i calls __get_user(login); resp is what the upstream answers.
Resolve(i, login, resp) ==
    /\ call.n < MaxCalls
    /\ LET r == GetUser(login, sessions[i], _users, _users_orgs, resp)
           known == login \in Logins
       IN /\ _users' = r.users
          /\ _users_orgs' = r.orgs
          /\ ureq' = IF known THEN [ureq EXCEPT ![i][login] = @ + r.nu] ELSE ureq
          /\ oreq' = IF known THEN [oreq EXCEPT ![i][login] = @ + r.no] ELSE oreq
          /\ first' = IF known /\ ~r.raised /\ first[i][login] = Absent
                       THEN [first EXCEPT ![i][login] = r.value] ELSE first
          /\ call' = [n |-> call.n + 1, session |-> i, login |-> login,
                      exclude |-> sessions[i], raised |-> r.raised, status |-> r.status,
                      ep |-> r.ep, value |-> r.value, nu |-> r.nu, no |-> r.no,
                      repeat |-> known /\ first[i][login] # Absent]
          /\ clean' = (clean /\ ~r.raised)
    /\ UNCHANGED <<sessions, pageVars, runVars, metaVars, clientVars>>

CacheNext ==
    \/ \E x \in BOOLEAN : NewSession(x)
    \/ \E i \in 1..Len(sessions), login \in Logins \cup {NoLogin}, resp \in UserResps :
            Resolve(i, login, resp)

SpecCache == CacheInit /\ [][CacheNext]_vars

\* The same harness with one session only, created at the start: one
\* Gitee.fetch whose client resolves users.
SessionInit ==
    /\ ClientIdle
    /\ PagesIdle
    /\ ClassInit
    /\ RunIdle
    /\ MetaIdle
    /\ sessions \in {<<FALSE>>, <<TRUE>>}
    /\ ureq = <<[l \in Logins |-> 0]>>
    /\ oreq = <<[l \in Logins |-> 0]>>
    /\ first = <<[l \in Logins |-> Absent]>>
    /\ call = NoCall
    /\ clean = TRUE

SessionNext ==
    \E login \in Logins \cup {NoLogin}, resp \in UserResps : Resolve(1, login, resp)

SpecSession == SessionInit /\ [][SessionNext]_vars

\* Session i has resolved login l to a user record.
Resolved(i, l) == first[i][l] # Absent /\ first[i][l] # None

\* C5: on one client with filtering disabled, each login resolved causes
\* exactly one users/{login} request and exactly one users/{login}/orgs
\* request of that client, and a repeated resolution issues no request and
\* returns what the first returned (while no request has failed).
C5_OneFetchPerLogin ==
    clean =>
        /\ \A i \in 1..Len(sessions) : \A l \in Logins :
              (~sessions[i] /\ Resolved(i, l)) => (ureq[i][l] = 1 /\ oreq[i][l] = 1)
        /\ (call.n > 0 /\ ~call.exclude /\ call.repeat) =>
              (call.nu = 0 /\ call.no = 0 /\ call.value = first[call.session][call.login])

\* C6: an entry one session's client stored is never returned to another
\* session's client: a session that has resolved a login has issued its own
\* users/{login} and users/{login}/orgs requests.
C6_SessionIsolation ==
    \A i \in 1..Len(sessions) : \A l \in Logins :
        Resolved(i, l) => (ureq[i][l] >= 1 /\ oreq[i][l] >= 1)

\* Session i calls __get_user(login) with user data included, the user is
\* cached or served, and the organizations are not cached: users/{login}/orgs
\* is asked, and the upstream answers it as resp.os says.
AsksOrgs(i, login, resp) ==
    /\ ~sessions[i]
    /\ login \in DOMAIN _users \/ resp.us = 200
    /\ login \notin DOMAIN _users_orgs
    /\ call'.session = i /\ call'.login = login
    /\ Resolve(i, login, resp)

\* C15: when users/{login}/orgs answers 404, the resolution does not raise
\* and returns the user with an empty list of organizations, after one
\* request, and the cache holds '[]' under the login; any other failure of
\* that request is raised, and nothing is stored; and once the cache holds
\* '[]' under a login it keeps it, and every later resolution of the login
\* returns the empty list without a request to users/{login}/orgs.
C15_Orgs404 ==
    [][/\ \A i \in 1..Len(sessions), login \in Logins, resp \in UserResps :
             AsksOrgs(i, login, resp) =>
                 /\ resp.os = 404 =>
                        /\ ~call'.raised
                        /\ call'.no = 1
                        /\ call'.value.organizations = EmptyList
                        /\ login \in DOMAIN _users_orgs'
                        /\ _users_orgs'[login] = Text(EmptyList)
                 /\ resp.os \notin {200, 404} =>
                        /\ call'.raised
                        /\ call'.ep = "users_orgs"
                        /\ call'.status = resp.os
                        /\ _users_orgs' = _users_orgs
       /\ \A l \in DOMAIN _users_orgs :
             _users_orgs[l] = Text(EmptyList) =>
                 /\ _users_orgs'[l] = Text(EmptyList)
                 /\ (call'.n # call.n /\ call'.login = l /\ ~call'.exclude /\ ~call'.raised) =>
                        (call'.no = 0 /\ call'.value.organizations = EmptyList)
      ]_vars

\* The only session resolved a login a second time and got the empty list of
\* organizations, which its first resolution had stored after a 404, without
\* a request.
C15_Witness ==
    /\ Len(sessions) = 1
    /\ call.repeat
    /\ ~call.raised
    /\ call.no = 0
    /\ oreq[1][call.login] = 1
    /\ call.value.organizations = EmptyList
    /\ _users_orgs[call.login] = Text(EmptyList)

\* C16: an entry of the user cache or of the organizations cache, once
\* stored under a login, is never removed and never replaced by a different
\* payload, whatever the upstream answers later.
C16_EntriesKept ==
    [][/\ \A l \in DOMAIN _users : l \in DOMAIN _users' /\ _users'[l] = _users[l]
       /\ \A l \in DOMAIN _users_orgs :
             l \in DOMAIN _users_orgs' /\ _users_orgs'[l] = _users_orgs[l]]_vars

\* A login resolved again, from the cache, whose user entry is the first
\* version of the record although the upstream has since served the second
\* one, which the organizations entry of the same login holds.
C16_Witness ==
    /\ call.n > 1
    /\ ~call.raised /\ ~call.exclude
    /\ call.login \in DOMAIN _users
    /\ call.login \in DOMAIN _users_orgs
    /\ call.nu = 0
    /\ JsonLoads(_users[call.login]).ver = 1
    /\ JsonLoads(_users_orgs[call.login]) = OrgsDoc(call.login, 2)
    /\ call.value.ver = 1

\* C26: a resolution that raises on users/{login} leaves the user cache as
\* it was, without an entry for the login, and one that raises on
\* users/{login}/orgs leaves the organizations cache as it was, without an
\* entry for the login; the next resolution of a login whose last one raised
\* sends the failed request again; and an entry appears in the user cache
\* only with a 200 to users/{login}, in the organizations cache only with a
\* 200 or a 404 to users/{login}/orgs.
C26_FailuresNotCached ==
    [][call'.n # call.n =>
          /\ (call'.raised /\ call'.ep = "users") =>
                /\ call'.nu = 1 /\ call'.no = 0
                /\ call'.login \notin DOMAIN _users'
                /\ _users' = _users
                /\ _users_orgs' = _users_orgs
          /\ (call'.raised /\ call'.ep = "users_orgs") =>
                /\ call'.no = 1
                /\ call'.login \notin DOMAIN _users_orgs'
                /\ _users_orgs' = _users_orgs
                /\ \A l \in DOMAIN _users' : l # call'.login =>
                       (l \in DOMAIN _users /\ _users'[l] = _users[l])
          /\ (call.raised /\ call'.login = call.login /\ ~call'.exclude) =>
                IF call.ep = "users" THEN call'.nu = 1 ELSE call'.no = 1
          /\ (_users' # _users \/ _users_orgs' # _users_orgs) =>
                \A login \in Logins, resp \in UserResps :
                    (call'.login = login /\ Resolve(1, login, resp)) =>
                        /\ _users' # _users =>
                              (resp.us = 200 /\ _users' = Put(_users, login, _users'[login]))
                        /\ _users_orgs' # _users_orgs =>
                              /\ resp.os \in {200, 404}
                              /\ _users_orgs' = Put(_users_orgs, login, _users_orgs'[login])
      ]_vars

\* The organizations of a login were asked a second time, the first request
\* having failed, and the second failed too: the user entry of the login is
\* cached and the organizations cache holds nothing for it.
C26_Witness ==
    /\ call.raised
    /\ call.ep = "users_orgs"
    /\ call.login \in DOMAIN _users
    /\ call.login \notin DOMAIN _users_orgs
    /\ ureq[1][call.login] = 1
    /\ oreq[1][call.login] = 2

----------------------------------------------------------------------------
\* User data excluded.

\* C7: in every state of a run, __get_user of an empty login, or of any
\* login while user data is excluded, returns None without raising, makes
\* no request and leaves the caches as they are; and a run with user data
\* excluded has made no request to users/{login} or users/{login}/orgs.
C7_NoUserRequests ==
    /\ \A login \in Logins \cup {NoLogin} :
          (login = NoLogin \/ exclude_user_data) =>
              \A resp \in RunUserResps :
                  LET r == UserLookup(login, resp)
                  IN /\ ~r.raised
                     /\ r.value = None
                     /\ r.nu = 0 /\ r.no = 0
                     /\ r.users = _users /\ r.orgs = _users_orgs
    /\ exclude_user_data => nusers = 0 /\ _users = EmptyCache /\ _users_orgs = EmptyCache

\* A run with user data excluded emitted an item whose user and whose
\* collaborators or assignees name upstream users.
C7_Witness ==
    /\ exclude_user_data
    /\ pc = "yielded"
    /\ cur.raw["user"] = Dict("alice")
    /\ cur.data["user_data"] = None
    /\ \/ cur.raw["collaborators"] # Unread /\ ~Falsy(cur.raw["collaborators"])
       \/ cur.raw["assignees"] # Unread /\ ~Falsy(cur.raw["assignees"])
    /\ nusers = 0

\* A value without user data: a missing key, None, an empty placeholder, or
\* a list holding nothing but None.
NoUserData(v) ==
    \/ v \in {Absent, None, EmptyDict, EmptyList}
    \/ v.t = "list" /\ \A i \in 1..Len(v.items) : v.items[i] = None

\* A list of comments none of which carries user data.
NoCommentUserData(v) ==
    \/ v \in {Absent, EmptyDict, EmptyList}
    \/ v.t = "list" /\ \A i \in 1..Len(v.items) : v.items[i].user_data = None

----------------------------------------------------------------------------
\* HTTP failures.

\* The statement of C9 as written: after a tolerated 404 of the commits or
\* of the review-comments endpoint the list stored in the item is empty.
C9_EmptyAfter404 ==
    cur # NoItem =>
        /\ "pull_commits" \in cur.tolerated => cur.data["commits_data"] = EmptyList
        /\ "pull_comments" \in cur.tolerated => cur.data["review_comments_data"] = EmptyList

\* C9: a 404 of the commits endpoint or of the review-comments endpoint, on
\* any page of its list, is not raised: the fetch returns the entries
\* gathered from the pages before it (none if it is the first page), and the
\* enrichment of the pull request goes on with the next fetch.
C9_Tolerated404 ==
    [][/\ (pc = "commits" /\ last'.ep = "pull_commits" /\ last'.status = 404) =>
              /\ pc' = "logs"
              /\ cur'.data["commits_data"] = List(acc)
              /\ (sub.state = "new" => cur'.data["commits_data"] = EmptyList)
       /\ (pc = "review" /\ last'.ep = "pull_comments" /\ last'.status = 404) =>
              /\ pc' = "commits"
              /\ cur'.data["review_comments_data"] = List(acc)
              /\ (sub.state = "new" => cur'.data["review_comments_data"] = EmptyList)]_vars

\* A pull request emitted with the commits of the first page after a 404 on
\* the second page of its commits.
C9_Witness ==
    /\ pc = "yielded"
    /\ "pull_commits" \in cur.tolerated
    /\ cur.data["commits_data"] # EmptyList

\* The statement of C10: an HTTP failure seen by the backend, other than a
\* 404 of the commits, review-comments or organizations endpoint, ends the
\* run with that failure.
C10_OtherFailuresAbort ==
    (last # NoFail /\ ~(last.status = 404 /\
                        last.ep \in {"pull_commits", "pull_comments", "users_orgs"}))
        => pc = "failed" /\ err.kind = "http" /\ err.ep = last.ep /\ err.status = last.status

----------------------------------------------------------------------------
\* The merger of a pull request.

\* Entry i is the first merged_pr entry of a page of action logs.
FirstMerge(entries, i) ==
    /\ i \in 1..Len(entries)
    /\ entries[i].action_type = "merged_pr"
    /\ \A j \in 1..(i - 1) : entries[j].action_type # "merged_pr"

\* The full record of a user: the user with the list of its organizations.
FullUser(v, login) == v.t = "user" /\ v.login = login /\ v.organizations.t = "list"

\* C11: `result` starts as None; after each page of action logs it is the
\* login of the first merged_pr entry of that page if the page has one, and
\* what it was before the page otherwise, so that at the end it is taken
\* from the last page with a merged_pr entry and is None iff no page has
\* one; merged_by is the final result, and when it is a login and user data
\* is not excluded merged_by_data is the full record of that login.
C11_LastPageWins ==
    /\ pc = "logs" =>
          /\ acc[1] = None
          /\ Len(acc) > 1 =>
                \/ \E i \in 1..Len(todo) :
                      FirstMerge(todo, i) /\ Last(acc) = PyStr(todo[i].login)
                \/ /\ \A i \in 1..Len(todo) : todo[i].action_type # "merged_pr"
                   /\ Last(acc) = acc[Len(acc) - 1]
    /\ pc = "merged_by" => cur.data["merged_by"] = Last(acc) /\ ~Falsy(Last(acc))
    /\ (category = "pull_request" /\ cur # NoItem /\ cur.data["merged_by"] # Absent
           /\ pc \in {"field", "users", "yielded"}) =>
          IF Falsy(cur.data["merged_by"])
          THEN cur.data["merged_by"] = None /\ cur.data["merged_by_data"] = EmptyList
          ELSE exclude_user_data \/ FullUser(cur.data["merged_by_data"], cur.data["merged_by"].s)

\* A pull request whose first page of action logs names alice as merger and
\* whose second page names bob after an entry of another type: merged_by is
\* bob, with bob's full record.
C11_Witness ==
    /\ pc = "field"
    /\ category = "pull_request"
    /\ acc = <<None, PyStr("alice"), PyStr("bob")>>
    /\ Len(todo) = 2
    /\ todo[1].action_type = "other"
    /\ cur.data["merged_by"] = PyStr("bob")
    /\ FullUser(cur.data["merged_by_data"], "bob")

\* C13: a fetch with a category outside {issue, pull_request, repository}
\* ends in a configuration error (BackendError) before any network activity:
\* no driver is started, no request is sent (not even the token refresh of a
\* client with a token, nor the repository calls), and nothing is emitted.
C13_InvalidCategory ==
    category \notin {"issue", "pull_request", "repository"} =>
        /\ pc \in {"fetch", "failed"}
        /\ pc = "failed" => err.kind = "BackendError"
        /\ reqs = <<>>
        /\ emitted = <<>>
        /\ cur = NoItem

\* A fetch of the category "commit" by a backend with an API token was
\* rejected.
C13_Witness ==
    /\ category = "commit"
    /\ api_token
    /\ pc = "failed"
    /\ err.kind = "BackendError"

\* C14: when the loop over issue comments or over review comments is at a
\* comment without a user reference (the key absent, or null), its step
\* raises nothing and sends no request, and adds the comment to the list with
\* its user_data set to None, the loop going on.
C14_MissingUserGuard ==
    [][(pc \in {"comments", "review"} /\ todo # <<>> /\ Head(todo) \in {None, Absent}) =>
           /\ pc' = pc
           /\ err' = NoErr
           /\ reqs' = reqs
           /\ acc' = Append(acc, Comment(Head(todo), None))
           /\ todo' = Tail(todo)]_vars

----------------------------------------------------------------------------
\* The metadata harness: metadata_category, metadata_id and
\* metadata_updated_on applied to items of every shape.

MetaKeys == {"base", "forks_count", "id", "updated_at", "fetched_on"}
Items == [keys : SUBSET MetaKeys, id : {101, 102}, updated_at : {201}, fetched_on : {301}]

\* A value of the item as it is, and str(v).
AsIs(v) == [t |-> "value", of |-> v]
Str(v) == [t |-> "str", of |-> v]

Returned(fn, v) == [fn |-> fn, raised |-> FALSE, value |-> v]
KeyError(fn, key) == [fn |-> fn, raised |-> TRUE, value |-> PyStr(key)]

\* metadata_category with the forks_count test made first.
MetadataCategoryForksFirst(it) ==
    Returned("category",
             IF "forks_count" \in it.keys THEN PyStr("repository")
             ELSE IF "base" \in it.keys THEN PyStr("pull_request")
             ELSE PyStr("issue"))

\* Gitee.metadata_category
MetadataCategory(it) ==
    Returned("category",
             IF "base" \in it.keys THEN PyStr("pull_request")
             ELSE IF "forks_count" \in it.keys THEN PyStr("repository")
             ELSE PyStr("issue"))

\* Gitee.metadata_id
MetadataId(it) ==
    IF "forks_count" \in it.keys
    THEN IF "fetched_on" \in it.keys THEN Returned("id", Str(it.fetched_on))
         ELSE KeyError("id", "fetched_on")
    ELSE IF "id" \in it.keys THEN Returned("id", Str(it.id))
         ELSE KeyError("id", "id")

\* Gitee.metadata_updated_on
MetadataUpdatedOn(it) ==
    IF "forks_count" \in it.keys
    THEN IF "fetched_on" \in it.keys THEN Returned("updated_on", AsIs(it.fetched_on))
         ELSE KeyError("updated_on", "fetched_on")
    ELSE IF "updated_at" \in it.keys THEN Returned("updated_on", Timestamp(it.updated_at))
         ELSE KeyError("updated_on", "updated_at")

MetaInit ==
    /\ metaItem \in Items
    /\ meta = NoMeta
    /\ ClientIdle
    /\ PagesIdle
    /\ ClassInit
    /\ CacheIdle
    /\ RunIdle

MetaNext ==
    /\ \/ meta' = MetadataCategory(metaItem)
       \/ meta' = MetadataId(metaItem)
       \/ meta' = MetadataUpdatedOn(metaItem)
    /\ UNCHANGED <<metaItem, pageVars, classVars, cacheVars, runVars, clientVars>>

SpecMeta == MetaInit /\ [][MetaNext]_vars

\* C12: metadata_category returns pull_request for an metaItem with a base key,
\* repository for an metaItem with a forks_count key and no base key, issue for
\* an metaItem with neither; it never raises and returns one of the three.
C12_CategoryOfShape ==
    meta.fn = "category" =>
        /\ ~meta.raised
        /\ meta.value \in {PyStr("issue"), PyStr("pull_request"), PyStr("repository")}
        /\ "base" \in metaItem.keys => meta.value = PyStr("pull_request")
        /\ ("base" \notin metaItem.keys /\ "forks_count" \in metaItem.keys) =>
              meta.value = PyStr("repository")
        /\ ("base" \notin metaItem.keys /\ "forks_count" \notin metaItem.keys) =>
              meta.value = PyStr("issue")

\* An metaItem with both a base and a forks_count key, classified.
C12_Witness ==
    /\ meta.fn = "category"
    /\ {"base", "forks_count"} \subseteq metaItem.keys
    /\ meta.value = PyStr("pull_request")

\* The identifier or the timestamp returned was taken from fetched_on (or
\* the read of fetched_on raised).
FromFetchedOn ==
    IF meta.raised
    THEN meta.value = PyStr("fetched_on")
    ELSE meta.value \in {Str(metaItem.fetched_on), AsIs(metaItem.fetched_on)}

\* C23: for an item of any shape, one with both a base and a forks_count key
\* included, metadata_id and metadata_updated_on take their value from
\* fetched_on iff metadata_category classifies the item as repository, and
\* from id / updated_at iff it classifies it as issue or pull_request.
C23_StrategyAgrees ==
    meta.fn \in {"id", "updated_on"} =>
        (FromFetchedOn <=> MetadataCategory(metaItem).value = PyStr("repository"))

----------------------------------------------------------------------------
\* The enrichment of an issue.

\* The empty placeholder of the enrichment field paired with an issue field.
Placeholder(field) ==
    IF field \in {"user", "assignee"} THEN EmptyDict ELSE EmptyList

\* What the enrichment field holds is a result of resolving `raw`: for a
\* user reference what __get_user returns, for a list a list, of one entry
\* per collaborator.
ResolvedFrom(field, raw, v) ==
    CASE field \in {"user", "assignee"} ->
            IF exclude_user_data \/ raw.login = NoLogin THEN v = None ELSE FullUser(v, raw.login)
      [] field = "collaborators" -> v.t = "list" /\ Len(v.items) = Len(raw.items)
      [] field = "comments" -> v.t = "list"

\* C24: an issue is emitted with, for each of user, assignee, collaborators
\* and comments, the paired enrichment field holding its empty placeholder
\* if the raw field is falsy and the resolved result if it is truthy; and the
\* step that finds the raw field falsy sends no request.
C24_SkipRule ==
    /\ []((category = "issue" /\ pc = "yielded") =>
             \A f \in {"user", "assignee", "collaborators", "comments"} :
                 IF Falsy(cur.raw[f])
                 THEN cur.data[DataKey(f)] = Placeholder(f)
                 ELSE ResolvedFrom(f, cur.raw[f], cur.data[DataKey(f)]))
    /\ [][(category = "issue" /\ pc = "field" /\ cur.fi <= Len(TargetFields)
             /\ cur'.t = "item" /\ Falsy(cur'.raw[Field])) =>
               (reqs' = reqs /\ pc' = "field" /\ cur'.fi = cur.fi + 1)]_vars

----------------------------------------------------------------------------
\* Upstream order.

\* The bound check of the driver of the run, on a record updated at t.
Violates(t) ==
    IF category = "issue" THEN t > to_date ELSE t < from_date \/ t > to_date

\* C21: whatever the order of the upstream records, an issue or pull request
\* run emits them in upstream order without a gap: an item is emitted only
\* as the next position of the list, and only if neither its record nor any
\* record before it on its page violates the bound check; a record that does
\* not violate it never ends the run; at the first record that does the run
\* ends, with exactly the records before it emitted, and nothing is emitted
\* after that, whatever the records behind it are.
C21_EagerTruncation ==
    [][(category = "issue" \/ category = "pull_request") =>
          /\ emitted' # emitted =>
                /\ emitted' = Append(emitted, Len(emitted) + 1)
                /\ Len(emitted) + 1 = served + idx
                /\ \A j \in 1..idx : ~Violates(page[j])
          /\ (pc = "record" /\ idx \in 1..Len(page)) =>
                IF Violates(page[idx])
                THEN /\ pc' = "done"
                     /\ Len(emitted') = served + idx - 1
                ELSE pc' = "field"
          /\ pc = "done" => (pc' = "done" /\ emitted' = emitted)
      ]_vars

\* An issue run that ended at a record above to_date, after emitting an
\* item, although the record behind it on the page is not above to_date.
C21_Witness ==
    /\ category = "issue"
    /\ StoppedAtRecord
    /\ Len(emitted) >= 1
    /\ idx < Len(page)
    /\ page[idx + 1] <= to_date

----------------------------------------------------------------------------
\* The order of the requests.

\* The requests a step sends.
Added == SubSeq(reqs', Len(reqs) + 1, Len(reqs'))

\* C22: in an issue or pull request run a step sends a request for the
\* primary list only when every record of the pages served so far has been
\* emitted, and a secondary request only for the record next to be emitted,
\* while enriching it; the step that emits a record sends none; the step that
\* finds a record violating the bound sends none and ends the run, and an
\* ended run sends none.
C22_RequestOrder ==
    [][(category = "issue" \/ category = "pull_request") =>
          /\ Len(reqs') >= Len(reqs)
          /\ SubSeq(reqs', 1, Len(reqs)) = reqs
          /\ Added # <<>> =>
                IF pc = "page"
                THEN /\ Added = <<PrimaryEndpoint>>
                     /\ idx > Len(page) \/ page = <<>>
                     /\ Len(emitted) = served + Len(page)
                     /\ emitted' = emitted
                ELSE /\ pc \in {"field", "users", "comments", "review", "commits",
                                "logs", "merged_by"}
                     /\ \A i \in 1..Len(Added) : Added[i] # PrimaryEndpoint
                     /\ cur.t = "item"
                     /\ cur.pos = Len(emitted) + 1
                     /\ cur.pos = served + idx
                     /\ emitted' = emitted
          /\ emitted' # emitted => (Added = <<>> /\ pc = "field")
          /\ (pc = "record" /\ idx \in 1..Len(page) /\ Violates(page[idx])) =>
                (pc' = "done" /\ Added = <<>>)
          /\ pc \in {"done", "failed"} => Added = <<>>
      ]_vars

C22_Witness ==
    /\ category = "pull_request"
    /\ pc = "yielded"
    /\ Len(emitted) = 1
    /\ Len(reqs) >= 3
    /\ reqs[1] = PrimaryEndpoint
    /\ \A i \in 2..Len(reqs) : reqs[i] # PrimaryEndpoint

----------------------------------------------------------------------------
\* The end of a run.

\* C25: an issue or pull request run over a finite upstream eventually ends
\* and stays ended, either cleanly -- without an error, at a record that
\* violates the bound or past the last record of the last page served -- or
\* with the error that ended it; it ends in no other way.
C25_RunEnds ==
    /\ <>[]((category = "issue" \/ category = "pull_request") => pc \in {"done", "failed"})
    /\ []((category = "issue" \/ category = "pull_request") =>
             /\ pc = "done" =>
                   /\ err = NoErr
                   /\ StoppedAtRecord \/ idx \notin 1..Len(page)
                   /\ cur = NoItem
             /\ pc = "failed" => err.kind # "none"
             /\ err # NoErr => pc = "failed")

\* A pull request run that went through two pages, emitted their records
\* and ended at the end of the list.
C25_Witness ==
    /\ category = "pull_request"
    /\ ListExhausted
    /\ served > 0
    /\ Len(emitted) >= 2
    /\ err = NoErr

----------------------------------------------------------------------------
\* The lower bound of the window.

\* The driver is at a record updated before from_date and not after to_date.
AtRecordBelowWindow ==
    /\ pc = "record"
    /\ idx \in 1..Len(page)
    /\ page[idx] < from_date
    /\ page[idx] <= to_date

\* C18: at a record updated before from_date and not after to_date the issue
\* driver goes on to enrich the record, and the item is emitted as the next
\* one when its enrichment ends, while the pull request driver ends the
\* sequence there, emitting nothing more.
C18_LowerBoundAsymmetry ==
    [][/\ AtRecordBelowWindow =>
             IF category = "issue"
             THEN /\ pc' = "field"
                  /\ cur' = NewItem(served + idx, page[idx])
                  /\ emitted' = emitted
             ELSE /\ pc' = "done"
                  /\ emitted' = emitted
       /\ (category = "issue" /\ pc = "field" /\ pc' = "yielded"
              /\ cur.updated_at < from_date) =>
             emitted' = Append(emitted, cur.pos)
       /\ (category = "pull_request" /\ pc = "done") => pc' = "done"]_vars

\* An issue updated before from_date was emitted after another one.
C18_Witness ==
    /\ category = "issue"
    /\ pc = "yielded"
    /\ cur.updated_at < from_date
    /\ cur.updated_at <= to_date
    /\ Len(emitted) = 2
    /\ emitted[2] = cur.pos

----------------------------------------------------------------------------
\* The repository driver.

\* The requests of the run other than the token refresh of the client.
DriverRequests == SelectSeq(reqs, LAMBDA ep : ep # "refresh")

\* C17: a repository run sends exactly two requests, the repository and then
\* its releases, and yields exactly one item, which holds the releases list
\* under releases and a timestamp under fetched_on and which
\* metadata_category classifies as repository; a run in which either request
\* failed has yielded nothing.
C17_RepositorySnapshot ==
    category = "repository" =>
        /\ pc \in {"fetch", "repo"} => DriverRequests = <<>>
        /\ pc = "releases" => DriverRequests = <<"repo">>
        /\ pc \in {"yielded", "done"} =>
              /\ DriverRequests = <<"repo", "releases">>
              /\ emitted = <<1>>
        /\ pc = "yielded" =>
              /\ {"releases", "fetched_on"} \subseteq cur.keys
              /\ cur.data["releases"] \in ReleaseLists
              /\ cur.data["fetched_on"].t = "timestamp"
              /\ MetadataCategory(cur) = Returned("category", PyStr("repository"))
        /\ pc = "failed" =>
              /\ emitted = <<>>
              /\ err.kind = "http"
              /\ DriverRequests \in {<<"repo">>, <<"repo", "releases">>}
              /\ err.ep = DriverRequests[Len(DriverRequests)]
        /\ pc \in {"fetch", "repo", "releases", "yielded", "done", "failed"}

\* A repository run that yielded the repository with two releases.
C17_Witness ==
    /\ category = "repository"
    /\ pc = "yielded"
    /\ emitted = <<1>>
    /\ Len(cur.data["releases"].items) = 2
    /\ reqs = <<"refresh", "repo", "releases">>

----------------------------------------------------------------------------
\* The client harness: one GiteeClient is constructed and then used for
\* single requests and for one fetch_items call, the server answering each
\* request with a status, a body and, possibly, a next link of its choosing.

\* The longest sequence of requests a client of the harness sends.
MaxSent == 4

\* The tokens argument: none, one token, two tokens.
TokenLists == {<<>>, <<"tok1">>, <<"tok1", "tok2">>}

\* A payload: None, or a dict given as its set of <<name, value>> pairs.
NonePayload == [t |-> "None", items |-> {}]
DictPayload(items) == [t |-> "dict", items |-> items]

\* `not payload`
NotPayload(payload) == payload.t = "None" \/ payload.items = {}

\* d[name] = value on a dict given as its pairs.
SetItem(items, name, value) == {kv \in items : kv[1] # name} \cup {<<name, value>>}

\* The calls of fetch_items: issues() with and without since, issue_comments
\* and pull_action_logs, with the path and the payload each one passes.
ListCalls ==
    {[path |-> "repos/o/r/issues",
      payload |-> DictPayload({<<"state", "all">>, <<"per_page", "100">>,
                               <<"direction", "asc">>, <<"sort", "updated">>})],
     [path |-> "repos/o/r/issues",
      payload |-> DictPayload({<<"state", "all">>, <<"per_page", "100">>,
                               <<"direction", "asc">>, <<"sort", "updated">>,
                               <<"since", "2020-01-01">>})],
     [path |-> "repos/o/r/issues/1/comments",
      payload |-> DictPayload({<<"per_page", "100">>})],
     [path |-> "repos/o/r/pulls/1/operate_logs",
      payload |-> DictPayload({})]}

\* The URLs of the single requests: repo(), repo_releases(), user().
SingleUrls == {"repos/o/r", "repos/o/r/releases?page=1&per_page=100", "users/alice"}

\* The URLs a next link may carry: whatever the server chooses.
NextUrls == {"next/a", "next/b"}
NoLink == "none"
RefreshUrl == "oauth/token"

\* What the server answers to a request of a list.
ListAnswers ==
    [status : Status, empty : BOOLEAN, next : NextUrls \cup {NoLink},
     total_page : {NoHeader, Header(<<"3">>)}]

\* The response as the generator sees it.
AsResponse(a) ==
    [status |-> a.status,
     body |-> IF a.empty THEN EmptyText ELSE JsonText(<<1>>),
     next |-> a.next # NoLink,
     total_page |-> a.total_page]

\* GiteeClient.fetch with the token added only to a payload that has
\* parameters already.
ClientFetchTokenIfParams(token, url, payload) ==
    IF token # NoToken /\ ~NotPayload(payload)
    THEN LET p == DictPayload(SetItem(payload.items, "access_token", token))
         IN [request |-> [url |-> url, params |-> p], payload |-> p]
    ELSE [request |-> [url |-> url, params |-> payload], payload |-> payload]

\* GiteeClient.fetch(url, payload): with an access token, the token is set in
\* the payload, a new dict if the payload is None or empty, else the caller's
\* own dict, which so changes too; the request goes out with that payload.
ClientFetch(token, url, payload) ==
    IF token # NoToken
    THEN IF NotPayload(payload)
         THEN [request |-> [url |-> url,
                            params |-> DictPayload({<<"access_token", token>>})],
               payload |-> payload]
         ELSE LET p == DictPayload(SetItem(payload.items, "access_token", token))
              IN [request |-> [url |-> url, params |-> p], payload |-> p]
    ELSE [request |-> [url |-> url, params |-> payload], payload |-> payload]

\* url_next of fetch_items: the URL of the path at first (line 740), then
\* response.links['next']['url'] of the last response (line 757).
UrlNext(l) == IF l.gen.state = "new" THEN l.path ELSE l.link

\* A request as the harness records it: what it is for, its URL, its
\* parameters.
Sent(what, request) == [what |-> what, url |-> request.url, params |-> request.params]

\* What the client harness leaves alone.
clientRest == <<pageVars, classVars, cacheVars, runVars, metaVars>>

ClientInit ==
    /\ tokens \in TokenLists
    /\ client = NoClient
    /\ sent = <<>>
    /\ listing = NoListing
    /\ MetaIdle
    /\ PagesIdle
    /\ ClassInit
    /\ CacheIdle
    /\ RunIdle

\* GiteeClient.__init__: the first token, if any, becomes the access token,
\* and the construction ends with _refresh_access_token().
NewClient ==
    /\ ~client.built
    /\ LET token == IF tokens # <<>> THEN tokens[1] ELSE NoToken
       IN /\ client' = [built |-> TRUE, access_token |-> token]
          /\ sent' = RefreshAccessToken(token # NoToken, sent,
                         Sent("refresh", [url |-> RefreshUrl, params |-> NonePayload]))
    /\ UNCHANGED <<tokens, listing, clientRest>>

\* repo(), repo_releases(), user(): self.fetch(url), no payload.
Single ==
    /\ client.built
    /\ Len(sent) < MaxSent
    /\ \E url \in SingleUrls :
         sent' = Append(sent, Sent("single",
                                   ClientFetch(client.access_token, url, NonePayload).request))
    /\ UNCHANGED <<tokens, client, listing, clientRest>>

\* A call of fetch_items(path, payload): the generator is made, nothing is
\* sent yet.
StartList ==
    /\ client.built
    /\ ~listing.active
    /\ \E c \in ListCalls :
         listing' = [active |-> TRUE, path |-> c.path, orig |-> c.payload,
                     payload |-> c.payload, gen |-> NewGen, link |-> NoLink,
                     links |-> <<>>]
    /\ UNCHANGED <<tokens, client, sent, clientRest>>

\* next() on the generator of the call: a request to url_next with the
\* payload of the call, unless the last response had no next link.
ListNext ==
    /\ listing.active
    /\ listing.gen.state # "closed"
    /\ Len(sent) < MaxSent
    /\ \E a \in ListAnswers :
         LET o == GenNext(listing.gen, AsResponse(a))
             f == ClientFetch(client.access_token, UrlNext(listing), listing.payload)
         IN IF o.requested
            THEN /\ sent' = Append(sent, Sent("items", f.request))
                 /\ listing' = [listing EXCEPT
                                   !.gen = o.gen,
                                   !.payload = f.payload,
                                   !.link = IF a.status = 200 THEN a.next ELSE @,
                                   !.links = IF a.status = 200 THEN Append(@, a.next) ELSE @]
            ELSE /\ listing' = [listing EXCEPT !.gen = o.gen]
                 /\ UNCHANGED sent
    /\ UNCHANGED <<tokens, client, clientRest>>

ClientNext ==
    \/ NewClient
    \/ Single
    \/ StartList
    \/ ListNext

SpecClient == ClientInit /\ [][ClientNext]_vars

\* The requests of the fetch_items call, in order.
ItemRequests == SelectSeq(sent, LAMBDA r : r.what = "items")

\* C19: every request of a fetch_items call, the first one and each
\* follow-up, carries the parameters the call was given, unchanged, and with
\* an access token set it carries access_token with that token as well, and
\* nothing else; the first request goes to the path of the call and each
\* follow-up to the URL of the next link of the response before it.
C19_PaginationRequests ==
    listing.active =>
        /\ \A k \in 1..Len(ItemRequests) :
              LET r == ItemRequests[k]
                  given == listing.orig.items
              IN /\ given \subseteq r.params.items
                 /\ r.params.items \ given =
                       IF client.access_token # NoToken
                       THEN {<<"access_token", client.access_token>>}
                       ELSE {}
                 /\ r.url = IF k = 1 THEN listing.path ELSE listing.links[k - 1]
        /\ \A k \in 1..Len(listing.links) - 1 :
              k < Len(ItemRequests) => listing.links[k] # NoLink

\* A client with a token read three pages of pull_action_logs, which passes
\* an empty payload, the second and third from the next links of the server.
C19_Witness ==
    /\ listing.active
    /\ client.access_token = "tok1"
    /\ listing.orig.items = {}
    /\ Len(ItemRequests) = 3
    /\ ItemRequests[2].url = "next/b"
    /\ ItemRequests[3].url = "next/a"

\* C20: a client with a token has sent exactly one token refresh, as the
\* first of all its requests, by the time its construction ends, and whatever
\* it does later sends no other one; nothing is sent before the construction.
C20_RefreshOnce ==
    /\ ~client.built => sent = <<>>
    /\ (client.built /\ tokens # <<>>) =>
          /\ client.access_token = tokens[1]
          /\ sent # <<>>
          /\ sent[1] = Sent("refresh", [url |-> RefreshUrl, params |-> NonePayload])
          /\ \A k \in 2..Len(sent) : sent[k].what # "refresh"

\* A client with a token that, after its refresh, sent a single request and
\* two requests of a list.
C20_Witness ==
    /\ client.built
    /\ client.access_token = "tok1"
    /\ Len(sent) >= 4
    /\ Len(ItemRequests) = 2
    /\ \E k \in 2..Len(sent) : sent[k].what = "single"

====
